---- MODULE Spec2Model ----
(***************************************************************************)
(* Model of app.py: one Streamlit session running the script top to        *)
(* bottom once per UI event.  The session state holds the context log      *)
(* (st.session_state.messages) and the display log                         *)
(* (st.session_state.display_messages); the submit handler calls the       *)
(* agent through call_agent / _agent_call_async.                           *)
(*                                                                         *)
(* Every action is one statement of the script; pc is the line the script  *)
(* is about to execute, "idle" when no script run is in progress.          *)
(*                                                                         *)
(* Text.  A Python str is a finite sequence of segments; the segment       *)
(* [s |-> b, n |-> k] stands for the first k characters of a base string   *)
(* named b.  Distinct base names stand for strings that differ in every    *)
(* position, so two texts are equal exactly when their segment lists are.  *)
(***************************************************************************)
EXTENDS Integers, Sequences, FiniteSets, TLC

\* ------------------------------------------------------------------ bounds
MaxPairs == 2

HistLen == 3

\* --------------------------------------------------------------- constants
MaxChars == 175000

PromptLen == 160

ErrPrefixLen == 30

\* -------------------------------------------------------------------- text
Seg(b, k) == [s |-> b, n |-> k]

Str(b, k) == << Seg(b, k) >>

RECURSIVE TextLen(_)
TextLen(t) == IF t = << >> THEN 0 ELSE Head(t).n + TextLen(Tail(t))

\* t[:k] for k >= 0
RECURSIVE Slice(_, _)
Slice(t, k) ==
    IF t = << >> \/ k <= 0 THEN << >>
    ELSE IF Head(t).n <= k
         THEN << Head(t) >> \o Slice(Tail(t), k - Head(t).n)
         ELSE << Seg(Head(t).s, k) >>

\* the i-th character (1-based) of t, as <<base name, offset in the base>>
RECURSIVE CharAt(_, _)
CharAt(t, i) ==
    IF i <= Head(t).n THEN << Head(t).s, i >>
    ELSE CharAt(Tail(t), i - Head(t).n)

StartsWith(t, p) == Len(t) >= Len(p) /\ SubSeq(t, 1, Len(p)) = p

\* ------------------------------------------------------------- the program
SYSTEM_PROMPT == Str("SYSTEM_PROMPT", PromptLen)

Turn(r, c) == [role |-> r, content |-> c]

get_initial_messages == << Turn("system", SYSTEM_PROMPT) >>

ErrPrefix == Str("ErrPrefix", ErrPrefixLen)

\* the one-character string that opens and closes Markdown inline code
Backtick == Str("backtick", 1)

\* str(e) of an exception raised with one message argument
ExcStr(e) == e.msg

\* line 168 with the prefix left out of the f-string
ErrorAnswer_NoPrefix(e) == Backtick \o ExcStr(e) \o Backtick

\* the f-string of line 168: prefix, backtick, str(e), backtick
ErrorAnswer(e) == ErrPrefix \o Backtick \o ExcStr(e) \o Backtick

\* what st.chat_input can return on a submission (never empty)
UserTexts ==
    { Str("ua", 1), Str("ua", MaxChars), Str("ub", MaxChars + 1), Str("ub", 200000) }

\* text of the agent last message
AgentTexts == { Str("r1", 23), Str("r2", MaxChars + 1) }

\* exceptions the external capability can raise
Causes ==
    { [type |-> "ConnectionError", msg |-> Str("e1", 18)],
      [type |-> "KeyError", msg |-> Str("e2", 10)] }

None == [kind |-> "none"]

Ret(v) == [kind |-> "ret", val |-> v]

\* an exception in flight; at is the line that raised it (its traceback)
Exc(e, at) == [kind |-> "exc", e |-> e, at |-> at]

VARIABLES
    pc,                \* line the script run is about to execute, or "idle"
    keys,              \* keys present in st.session_state
    messages,          \* st.session_state.messages (ContextLog)
    display_messages,  \* st.session_state.display_messages (DisplayLog)
    button,            \* value of st.button("Reset chat") in this run
    user_input,        \* value of st.chat_input(...) in this run, or None
    answer,            \* local variable answer, or None
    pending,           \* outcome of the _agent_call_async coroutine
    result,            \* outcome of call_agent as line 166 sees it
    stdio_open,        \* the stdio_client context (tool process pipe) is entered
    session_open,      \* the ClientSession context is entered
    inflight,          \* number of _agent_call_async coroutines not yet finished
    n,                 \* completed submissions since initialization or reset
    hist               \* kinds of the last UI events, newest last

vars == << pc, keys, messages, display_messages, button, user_input, answer,
           pending, result, stdio_open, session_open, inflight, n, hist >>

store == << keys, messages, display_messages >>

locals == << button, user_input, answer, pending, result >>

bridge == << stdio_open, session_open, inflight >>

ghost == << n, hist >>

Init ==
    /\ pc = "idle"
    /\ keys = {}
    /\ messages = << >>
    /\ display_messages = << >>
    /\ button = FALSE
    /\ user_input = None
    /\ answer = None
    /\ pending = None
    /\ result = None
    /\ stdio_open = FALSE
    /\ session_open = FALSE
    /\ inflight = 0
    /\ n = 0
    /\ hist = << >>

\* the last HistLen event kinds
Remember(h, kind) ==
    IF Len(h) < HistLen THEN Append(h, kind) ELSE Append(Tail(h), kind)

\* ---- a UI event starts a script run
StartRun(kind, b, u) ==
    /\ pc = "idle"
    /\ pc' = "l125"
    /\ button' = b
    /\ user_input' = u
    /\ hist' = Remember(hist, kind)
    /\ UNCHANGED << store, answer, pending, result, bridge, n >>

\* first load of the page: the session state is empty and no widget is set
Load ==
    /\ keys = {}
    /\ StartRun("load", FALSE, None)

\* click on "Reset chat": the widget exists only after a first run
ClickReset ==
    /\ keys # {}
    /\ StartRun("reset", TRUE, None)

\* submission of the chat input
Submit ==
    /\ keys # {}
    /\ Len(messages) < 1 + 2 * MaxPairs
    /\ \E t \in UserTexts : StartRun("submit", FALSE, Ret(t))

\* ---- sidebar: the reset button
L125 ==
    /\ pc = "l125"
    /\ pc' = IF button THEN "l126" ELSE "l131"
    /\ UNCHANGED << store, locals, bridge, ghost >>

\* line 126 resetting to an empty list instead of get_initial_messages()
L126_Empty ==
    /\ pc = "l126"
    /\ messages' = << >>
    /\ keys' = keys \cup {"messages"}
    /\ pc' = "l127"
    /\ UNCHANGED << display_messages, locals, bridge, ghost >>

L126 ==
    /\ pc = "l126"
    /\ messages' = get_initial_messages
    /\ keys' = keys \cup {"messages"}
    /\ pc' = "l127"
    /\ UNCHANGED << display_messages, locals, bridge, ghost >>

\* line 127 left out: the display log survives a reset
L127_NoClear ==
    /\ pc = "l127"
    /\ n' = 0
    /\ pc' = "l128"
    /\ UNCHANGED << store, locals, bridge, hist >>

L127 ==
    /\ pc = "l127"
    /\ display_messages' = << >>
    /\ keys' = keys \cup {"display_messages"}
    /\ n' = 0
    /\ pc' = "l128"
    /\ UNCHANGED << messages, locals, bridge, hist >>

\* st.success("Conversation reset!")
L128 ==
    /\ pc = "l128"
    /\ pc' = "l131"
    /\ UNCHANGED << store, locals, bridge, ghost >>

\* ---- session-state initialization
L131 ==
    /\ pc = "l131"
    /\ IF "messages" \notin keys
       THEN /\ messages' = get_initial_messages
            /\ keys' = keys \cup {"messages"}
            /\ n' = 0
       ELSE UNCHANGED << messages, keys, n >>
    /\ pc' = "l134"
    /\ UNCHANGED << display_messages, locals, bridge, hist >>

L134 ==
    /\ pc = "l134"
    /\ IF "display_messages" \notin keys
       THEN /\ display_messages' = << >>
            /\ keys' = keys \cup {"display_messages"}
       ELSE UNCHANGED << display_messages, keys >>
    /\ pc' = "l146"
    /\ UNCHANGED << messages, locals, bridge, ghost >>

\* header and rendering of the past display messages: no state change
L146 ==
    /\ pc = "l146"
    /\ pc' = "l153"
    /\ UNCHANGED << store, locals, bridge, ghost >>

\* ---- chat input handler
L153 ==
    /\ pc = "l153"
    /\ pc' = IF user_input # None THEN "l155" ELSE "l175"
    /\ UNCHANGED << store, locals, bridge, ghost >>

\* line 155 without the [:175000] slice
L155_NoSlice ==
    /\ pc = "l155"
    /\ messages' = Append(messages, Turn("user", user_input.val))
    /\ pc' = "l156"
    /\ UNCHANGED << keys, display_messages, locals, bridge, ghost >>

L155 ==
    /\ pc = "l155"
    /\ messages' = Append(messages, Turn("user", Slice(user_input.val, MaxChars)))
    /\ pc' = "l156"
    /\ UNCHANGED << keys, display_messages, locals, bridge, ghost >>

\* line 156 left out: the user turn is not mirrored
L156_NoAppend ==
    /\ pc = "l156"
    /\ pc' = "l159"
    /\ UNCHANGED << store, locals, bridge, ghost >>

L156 ==
    /\ pc = "l156"
    /\ display_messages' = Append(display_messages, Turn("user", user_input.val))
    /\ pc' = "l159"
    /\ UNCHANGED << keys, messages, locals, bridge, ghost >>

\* st.chat_message("user"): st.markdown(user_input)
L159 ==
    /\ pc = "l159"
    /\ pc' = "l166"
    /\ UNCHANGED << store, locals, bridge, ghost >>

\* ---- Agent Bridge: answer = call_agent(st.session_state.messages)
\* call_agent starts asyncio.run(_agent_call_async(messages)) and blocks in it
\* call_agent scheduling the coroutine without waiting for it
L166_FireAndForget ==
    /\ pc = "l166"
    /\ inflight' = inflight + 1
    /\ answer' = Ret(Str("task", 4))
    /\ pc' = "l170"
    /\ UNCHANGED << store, button, user_input, pending, result, stdio_open,
                    session_open, ghost >>

L166 ==
    /\ pc = "l166"
    /\ inflight' = inflight + 1
    /\ pc' = "l43"
    /\ UNCHANGED << store, locals, stdio_open, session_open, ghost >>

\* async with stdio_client(server_params) as (read, write)
L43 ==
    /\ pc = "l43"
    /\ \/ /\ stdio_open' = TRUE
          /\ pc' = "l44"
          /\ UNCHANGED pending
       \/ \E e \in Causes :
             /\ pending' = Exc(e, "l43")
             /\ pc' = "l55"
             /\ UNCHANGED stdio_open
    /\ UNCHANGED << store, button, user_input, answer, result, session_open, inflight, ghost >>

\* async with ClientSession(read, write) as session
L44 ==
    /\ pc = "l44"
    /\ \/ /\ session_open' = TRUE
          /\ pc' = "l45"
          /\ UNCHANGED pending
       \/ \E e \in Causes :
             /\ pending' = Exc(e, "l44")
             /\ pc' = "x43"
             /\ UNCHANGED session_open
    /\ UNCHANGED << store, button, user_input, answer, result, stdio_open, inflight, ghost >>

\* a statement of the inner block that either completes or raises
BodyStep(here, next) ==
    /\ pc = here
    /\ \/ /\ pc' = next
          /\ UNCHANGED pending
       \/ \E e \in Causes :
             /\ pending' = Exc(e, here)
             /\ pc' = "x44"
    /\ UNCHANGED << store, button, user_input, answer, result, bridge, ghost >>

\* tools = await load_mcp_tools(session)
L45 == BodyStep("l45", "l46")

\* agent = create_react_agent(model, tools)
L46 == BodyStep("l46", "l47")

\* response = await agent.ainvoke({"messages": messages});
\* return response["messages"][-1].content
L47 ==
    /\ pc = "l47"
    /\ \/ \E a \in AgentTexts : pending' = Ret(a)
       \/ \E e \in Causes : pending' = Exc(e, "l47")
    /\ pc' = "x44"
    /\ UNCHANGED << store, button, user_input, answer, result, bridge, ghost >>

\* leaving the ClientSession block, by return or by exception
X44 ==
    /\ pc = "x44"
    /\ session_open' = FALSE
    /\ pc' = "x43"
    /\ UNCHANGED << store, locals, stdio_open, inflight, ghost >>

\* the pipe closed by a plain call after the block, skipped by an exception
X43_OnlyOnReturn ==
    /\ pc = "x43"
    /\ stdio_open' = IF pending.kind = "ret" THEN FALSE ELSE stdio_open
    /\ pc' = "l55"
    /\ UNCHANGED << store, locals, session_open, inflight, ghost >>

\* leaving the stdio_client block, by return or by exception
X43 ==
    /\ pc = "x43"
    /\ stdio_open' = FALSE
    /\ pc' = "l55"
    /\ UNCHANGED << store, locals, session_open, inflight, ghost >>

\* asyncio.run returns the coroutine's value to line 166 or re-raises
L55 ==
    /\ pc = "l55"
    /\ inflight' = inflight - 1
    /\ result' = pending
    /\ IF pending.kind = "ret"
       THEN /\ answer' = Ret(pending.val)
            /\ pc' = "l170"
       ELSE /\ pc' = "l167"
            /\ UNCHANGED answer
    /\ UNCHANGED << store, button, user_input, pending, stdio_open, session_open, ghost >>

\* line 168 without the backticks around {e}
L167_NoBackticks ==
    /\ pc = "l167"
    /\ answer' = Ret(ErrPrefix \o ExcStr(result.e))
    /\ pc' = "l170"
    /\ UNCHANGED << store, button, user_input, pending, result, bridge, ghost >>

\* except Exception as e: answer = f"... `{e}`"
L167 ==
    /\ pc = "l167"
    /\ answer' = Ret(ErrorAnswer(result.e))
    /\ pc' = "l170"
    /\ UNCHANGED << store, button, user_input, pending, result, bridge, ghost >>

\* st.markdown(answer)
L170 ==
    /\ pc = "l170"
    /\ pc' = "l173"
    /\ UNCHANGED << store, locals, bridge, ghost >>

\* line 173 moved into the try block: no context turn after a failure
L173_SkipOnError ==
    /\ pc = "l173"
    /\ messages' = IF result.kind = "exc" THEN messages
                   ELSE Append(messages, Turn("assistant", answer.val))
    /\ pc' = "l174"
    /\ UNCHANGED << keys, display_messages, locals, bridge, ghost >>

L173 ==
    /\ pc = "l173"
    /\ messages' = Append(messages, Turn("assistant", answer.val))
    /\ pc' = "l174"
    /\ UNCHANGED << keys, display_messages, locals, bridge, ghost >>

\* line 174 with the role copied from line 156
L174_RoleUser ==
    /\ pc = "l174"
    /\ display_messages' = Append(display_messages, Turn("user", answer.val))
    /\ pc' = "l175"
    /\ UNCHANGED << keys, messages, locals, bridge, ghost >>

L174 ==
    /\ pc = "l174"
    /\ display_messages' = Append(display_messages, Turn("assistant", answer.val))
    /\ pc' = "l175"
    /\ UNCHANGED << keys, messages, locals, bridge, ghost >>

\* the script run ends; its locals are gone
EndRun ==
    /\ pc = "l175"
    /\ pc' = "idle"
    /\ n' = IF user_input # None THEN n + 1 ELSE n
    /\ button' = FALSE
    /\ user_input' = None
    /\ answer' = None
    /\ pending' = None
    /\ result' = None
    /\ UNCHANGED << store, bridge, hist >>

Next ==
    \/ Load
    \/ ClickReset
    \/ Submit
    \/ L125
    \/ L126
    \/ L127
    \/ L128
    \/ L131
    \/ L134
    \/ L146
    \/ L153
    \/ L155
    \/ L156
    \/ L159
    \/ L166
    \/ L43
    \/ L44
    \/ L45
    \/ L46
    \/ L47
    \/ X44
    \/ X43
    \/ L55
    \/ L167
    \/ L170
    \/ L173
    \/ L174
    \/ EndRun

Spec == Init /\ [][Next]_vars

\* ------------------------------------------------------------- properties
Initialized == {"messages", "display_messages"} \subseteq keys

Last(q) == q[Len(q)]

Min(a, b) == IF a <= b THEN a ELSE b

\* positions at which two texts are compared character by character
Probes == {1, 2, MaxChars - 1, MaxChars}

\* c is the first k characters of t
IsFirstChars(c, t, k) ==
    /\ TextLen(c) = Min(TextLen(t), k)
    /\ TextLen(t) <= k => c = t
    /\ \A i \in Probes : i <= TextLen(c) => CharAt(c, i) = CharAt(t, i)

\* a bridge invocation is in flight
AwaitingAgent == inflight > 0

\* C1 as stated: at every point after session initialization, between
\* statements included, len(DisplayLog) = len(ContextLog) - 1.
C1_EveryPoint ==
    Initialized => Len(display_messages) = Len(messages) - 1

\* C1 amended: after initialization len(DisplayLog) = len(ContextLog) - 1
\* holds except between the two statements of a pair: after line 155 and
\* after line 173 the context log is two longer than the display log, and
\* after line 126 the context log is the single system turn while the display
\* log still has its old turns.
C1_BetweenPairs ==
    Initialized =>
        CASE pc \in {"l156", "l174"} -> Len(messages) = Len(display_messages) + 2
          [] pc = "l127" -> Len(messages) = 1 /\ Len(display_messages) = 2 * n
          [] OTHER -> Len(display_messages) = Len(messages) - 1

C1_Witness == AwaitingAgent /\ pc = "l47" /\ Len(display_messages) >= 3

\* C2 as stated: when the external capability raises, call_agent does not
\* raise; it returns a string beginning with the error prefix.
C2_CallAgentContains ==
    (result # None /\ pending.kind = "exc") =>
        (result.kind = "ret" /\ StartsWith(result.val, ErrPrefix))

\* C2 amended: when the external capability raises an Exception, call_agent
\* re-raises it unchanged; the except clause of the submit handler catches it
\* and sets answer to a string beginning with the error prefix.
C2_CallSiteContains ==
    (result # None /\ pending.kind = "exc") =>
        /\ result = pending
        /\ pc \in {"l167", "l170", "l173", "l174", "l175"}
        /\ pc # "l167" => (answer.kind = "ret" /\ StartsWith(answer.val, ErrPrefix))

C2_Witness == pc = "l170" /\ result.kind = "exc" /\ answer.kind = "ret"

\* C3: after a submission of text t the user turn appended to the context
\* log holds the first 175000 characters of t (t itself when it is not
\* longer) and the user turn appended to the display log holds t.
C3_Truncation ==
    pc = "l159" =>
        /\ Last(messages).role = "user"
        /\ IsFirstChars(Last(messages).content, user_input.val, 175000)
        /\ TextLen(user_input.val) > 175000 =>
               TextLen(Last(messages).content) = 175000
        /\ Last(display_messages) = [role |-> "user", content |-> user_input.val]

C3_Witness ==
    /\ pc = "l159"
    /\ TextLen(user_input.val) > 175000
    /\ Last(messages).content # Last(display_messages).content

\* C4: between UI events, after N completed submissions since the session
\* was initialized or reset, len(ContextLog) = 1 + 2N and len(DisplayLog) = 2N.
C4_Lengths ==
    (pc = "idle" /\ Initialized) =>
        (Len(messages) = 1 + 2 * n /\ Len(display_messages) = 2 * n)

C4_Witness == pc = "idle" /\ n >= 2

\* C5: once the reset handler has run, and until the end of that script run,
\* the context log is the single system turn with SYSTEM_PROMPT and the
\* display log is empty, whatever the state before; so is it after a second
\* reset in a row.
C5_Reset ==
    (hist # << >> /\ Last(hist) = "reset" /\ pc \notin {"l125", "l126", "l127"}) =>
        /\ messages = << [role |-> "system", content |-> SYSTEM_PROMPT] >>
        /\ display_messages = << >>
        /\ n = 0

C5_Witness ==
    /\ pc = "idle"
    /\ Len(hist) >= 3
    /\ hist[Len(hist)] = "reset"
    /\ hist[Len(hist) - 1] = "reset"
    /\ hist[Len(hist) - 2] = "submit"

C7_NoMarkup ==
    (pc = "l175" /\ result.kind = "exc") =>
        /\ Last(messages) = [role |-> "assistant", content |-> ErrPrefix \o ExcStr(result.e)]
        /\ Last(display_messages) = Last(messages)

\* C7 amended: after an invocation that failed with Exception c the handler
\* has appended exactly one assistant turn to each log, both with the same
\* content: the error prefix followed by str(c) between two backticks; the
\* script run ends normally.
C7_Backticks ==
    (pc = "l175" /\ result.kind = "exc") =>
        /\ Len(messages) = 1 + 2 * n + 2
        /\ Len(display_messages) = 2 * n + 2
        /\ messages[Len(messages) - 1].role = "user"
        /\ display_messages[Len(display_messages) - 1].role = "user"
        /\ Last(messages) =
              [role |-> "assistant",
               content |-> ErrPrefix \o Backtick \o result.e.msg \o Backtick]
        /\ Last(display_messages) = Last(messages)

C7_Witness == pc = "l175" /\ result.kind = "exc" /\ n >= 1

\* C8: whenever the context log exists it is non-empty, its first turn is the
\* system turn with SYSTEM_PROMPT, no later turn has role system, and every
\* display turn has role user or assistant; a bridge invocation only runs on
\* such a log.
C8_SystemFirst ==
    /\ "messages" \in keys =>
          /\ Len(messages) >= 1
          /\ messages[1] = [role |-> "system", content |-> SYSTEM_PROMPT]
          /\ \A i \in 2..Len(messages) : messages[i].role \in {"user", "assistant"}
    /\ \A i \in 1..Len(display_messages) :
          display_messages[i].role \in {"user", "assistant"}
    /\ AwaitingAgent => "messages" \in keys

C8_Witness == AwaitingAgent /\ pc = "l47" /\ Len(messages) >= 4 /\ Last(hist) = "submit"

\* C9: outside a bridge invocation neither the tool-process pipe nor the
\* client session is open, whether the invocation returned or raised; every
\* invocation starts with nothing open, and the client session is only open
\* inside the pipe.
C9_Scoped ==
    /\ ~AwaitingAgent => (~stdio_open /\ ~session_open)
    /\ pc = "l43" => (~stdio_open /\ ~session_open)
    /\ session_open => stdio_open

C9_Witness ==
    /\ pc = "l167"
    /\ result.at = "l47"
    /\ n >= 1
    /\ ~stdio_open

\* C10: between UI events the logs are in lockstep: display turn i and
\* context turn i+1 have the same role, user at odd i and assistant at even
\* i, the same content for assistant turns and the first 175000 characters
\* for user turns; the log an invocation receives ends with the submitted
\* user turn, truncated.
C10_Lockstep ==
    /\ (pc = "idle" /\ Initialized) =>
          /\ Len(messages) = Len(display_messages) + 1
          /\ \A i \in 1..Len(display_messages) :
                /\ display_messages[i].role = messages[i + 1].role
                /\ display_messages[i].role = IF i % 2 = 1 THEN "user" ELSE "assistant"
                /\ IF i % 2 = 1
                   THEN IsFirstChars(messages[i + 1].content,
                                     display_messages[i].content, MaxChars)
                   ELSE messages[i + 1].content = display_messages[i].content
    /\ pc = "l47" =>
          /\ Last(messages).role = "user"
          /\ IsFirstChars(Last(messages).content, user_input.val, MaxChars)

C10_Witness ==
    /\ pc = "idle"
    /\ Len(display_messages) >= 4
    /\ \E i \in 1..Len(display_messages) :
          display_messages[i].content # messages[i + 1].content
====
